---- MODULE Spec2Model ----
(***************************************************************************)
(* Quartz clock calibration: the live drift monitor (Python/ppm_script.py) *)
(* and the offline chart builder (Python/plot_chart.py).                   *)
(*                                                                         *)
(* Python floats are modelled as exact numbers <<s, m, d, e>> =            *)
(* s * m / d * 10^e kept in a canonical form, so two numbers are equal     *)
(* exactly when their tuples are equal.  Rounding error of binary64 is not *)
(* modelled.                                                               *)
(***************************************************************************)
EXTENDS Integers, Sequences, FiniteSets, TLC

\* Python's None is the empty tuple, and an optional integer k is <<k>>.
None == <<>>

\* ------------------------------------------------------------ arithmetic
\* A natural number of any size is the sequence of its base-10000 digits,
\* least significant first, without a leading (last) zero digit; 0 is << >>.
\*
\* A number is <<s, m, d, e>> = s * m / d * 10^e: sign s in {-1, 0, 1},
\* magnitude m (digits), denominator d > 0 (an integer coprime to 10 and to
\* m), m not a multiple of 10; zero is <<0, << >>, 1, 0>>.

Abs(k) == IF k < 0 THEN -k ELSE k

Sign(k) == IF k < 0 THEN -1 ELSE IF k = 0 THEN 0 ELSE 1

Base == 100 * 100

Zero == <<0, <<>>, 1, 0>>

\* The arithmetic, one operation per name, on the tuple x of its operands:
\*   gcd <<a, b>>                     greatest common divisor of integers
\*   nat <<k>>, int <<m>>             digits of an integer, integer of digits
\*   trim <<m>>                       m without leading zero digits
\*   cmp <<a, b>>                     -1, 0, 1 as a < b, a = b, a > b
\*   add <<a, b>>, sub <<a, b>>       a + b, a - b (a >= b)
\*   mulk <<a, k>>                    a * k for an integer 0 <= k <= 200000
\*   mul <<a, b>>                     a * b
\*   pow10 <<k>>                      10^k
\*   divmodk <<a, k>>                 <<a div k, a mod k>>, 0 < k <= 200000
\*   divpow10 <<a, j>>                a div 10^j
\*   norm <<s, m, d, e>>              the number s * m / d * 10^e (d > 0)
\*   fadd <<a, b>>, fmul <<a, b>>     sum and product of numbers
\*   finv <<a>>                       1 / a (a # 0, its magnitude <= 200000)
\*   fmt1 <<a>>                       a rounded to one decimal, ties to even,
\*                                    as a signed count of tenths
RECURSIVE Arith(_, _)
Arith(op, x) ==
    CASE op = "gcd" ->
           IF x[2] = 0 THEN x[1] ELSE Arith("gcd", <<x[2], x[1] % x[2]>>)
      [] op = "nat" ->
           IF x[1] = 0 THEN <<>>
           ELSE <<x[1] % Base>> \o Arith("nat", <<x[1] \div Base>>)
      [] op = "int" ->
           IF x[1] = <<>> THEN 0
           ELSE x[1][1] + Base * Arith("int", <<Tail(x[1])>>)
      [] op = "trim" ->
           IF x[1] # <<>> /\ x[1][Len(x[1])] = 0
           THEN Arith("trim", <<SubSeq(x[1], 1, Len(x[1]) - 1)>>)
           ELSE x[1]
      [] op = "cmpat" ->
           IF x[3] = 0 THEN 0
           ELSE IF x[1][x[3]] < x[2][x[3]] THEN -1
           ELSE IF x[1][x[3]] > x[2][x[3]] THEN 1
           ELSE Arith("cmpat", <<x[1], x[2], x[3] - 1>>)
      [] op = "cmp" ->
           IF Len(x[1]) < Len(x[2]) THEN -1
           ELSE IF Len(x[1]) > Len(x[2]) THEN 1
           ELSE Arith("cmpat", <<x[1], x[2], Len(x[1])>>)
      [] op = "addc" ->
           IF x[1] = <<>> /\ x[2] = <<>> THEN (IF x[3] = 0 THEN <<>> ELSE <<x[3]>>)
           ELSE LET t == (IF x[1] = <<>> THEN 0 ELSE x[1][1])
                         + (IF x[2] = <<>> THEN 0 ELSE x[2][1]) + x[3]
                IN  <<t % Base>>
                        \o Arith("addc", <<IF x[1] = <<>> THEN <<>> ELSE Tail(x[1]),
                                           IF x[2] = <<>> THEN <<>> ELSE Tail(x[2]),
                                           t \div Base>>)
      [] op = "add" ->
           IF Len(x[1]) <= 1 /\ Len(x[2]) <= 1
           THEN Arith("nat", <<(IF x[1] = <<>> THEN 0 ELSE x[1][1])
                                + (IF x[2] = <<>> THEN 0 ELSE x[2][1])>>)
           ELSE Arith("addc", <<x[1], x[2], 0>>)
      [] op = "subb" ->
           IF x[1] = <<>> THEN <<>>
           ELSE LET t == x[1][1] - (IF x[2] = <<>> THEN 0 ELSE x[2][1]) - x[3]
                IN  <<t % Base>>
                        \o Arith("subb", <<Tail(x[1]),
                                           IF x[2] = <<>> THEN <<>> ELSE Tail(x[2]),
                                           IF t < 0 THEN 1 ELSE 0>>)
      [] op = "sub" ->
           IF Len(x[1]) <= 2
           THEN Arith("nat", <<Arith("int", <<x[1]>>) - Arith("int", <<x[2]>>)>>)
           ELSE Arith("trim", <<Arith("subb", <<x[1], x[2], 0>>)>>)
      [] op = "mulkc" ->
           IF x[1] = <<>> THEN Arith("nat", <<x[3]>>)
           ELSE LET t == x[1][1] * x[2] + x[3]
                IN  <<t % Base>> \o Arith("mulkc", <<Tail(x[1]), x[2], t \div Base>>)
      [] op = "mulk" ->
           IF x[2] = 0 \/ x[1] = <<>> THEN <<>>
           ELSE IF x[2] = 1 THEN x[1]
           ELSE Arith("mulkc", <<x[1], x[2], 0>>)
      [] op = "mulr" ->
           IF x[2] = <<>> THEN <<>>
           ELSE LET rest == Arith("mulr", <<x[1], Tail(x[2])>>)
                IN  Arith("add", <<Arith("mulk", <<x[1], x[2][1]>>),
                                   IF rest = <<>> THEN rest ELSE <<0>> \o rest>>)
      [] op = "mul" ->
           IF x[1] = <<>> \/ x[2] = <<>> THEN <<>>
           ELSE IF Len(x[2]) = 1 THEN Arith("mulk", <<x[1], x[2][1]>>)
           ELSE IF Len(x[1]) = 1 THEN Arith("mulk", <<x[2], x[1][1]>>)
           ELSE Arith("mulr", <<x[1], x[2]>>)
      [] op = "pow10" ->
           IF x[1] <= 0 THEN <<1>>
           ELSE Arith("mulk", <<Arith("pow10", <<x[1] - 1>>), 10>>)
      [] op = "divmodr" ->
           IF x[1] = <<>> THEN <<<<>>, 0>>
           ELSE LET hi == Arith("divmodr", <<Tail(x[1]), x[2]>>)
                    cur == hi[2] * Base + x[1][1]
                IN  << <<cur \div x[2]>> \o hi[1], cur % x[2] >>
      [] op = "divmodk" ->
           IF x[2] = 1 THEN <<x[1], 0>>
           ELSE IF Len(x[1]) <= 2
           THEN LET k == Arith("int", <<x[1]>>)
                IN  <<Arith("nat", <<k \div x[2]>>), k % x[2]>>
           ELSE LET r == Arith("divmodr", <<x[1], x[2]>>)
                IN  <<Arith("trim", <<r[1]>>), r[2]>>
      [] op = "divpow10" ->
           IF x[2] <= 0 THEN x[1]
           ELSE Arith("divpow10", <<Arith("divmodk", <<x[1], 10>>)[1], x[2] - 1>>)
      [] op = "stripden" ->
           IF x[2] % 10 = 0 THEN Arith("stripden", <<x[1], x[2] \div 10, x[3] - 1>>)
           ELSE IF x[2] % 2 = 0
           THEN Arith("stripden", <<Arith("mulk", <<x[1], 5>>), x[2] \div 2, x[3] - 1>>)
           ELSE IF x[2] % 5 = 0
           THEN Arith("stripden", <<Arith("mulk", <<x[1], 2>>), x[2] \div 5, x[3] - 1>>)
           ELSE x
      [] op = "stripnum" ->
           IF x[1][1] % 10 = 0
           THEN Arith("stripnum", <<Arith("divmodk", <<x[1], 10>>)[1], x[2] + 1>>)
           ELSE x
      [] op = "norm" ->
           IF x[1] = 0 \/ x[2] = <<>> THEN Zero
           ELSE LET g == IF x[3] = 1 THEN 1
                         ELSE Arith("gcd", <<x[3], Arith("divmodk", <<x[2], x[3]>>)[2]>>)
                    a == Arith("stripden", <<Arith("divmodk", <<x[2], g>>)[1],
                                             x[3] \div g, x[4]>>)
                    b == Arith("stripnum", <<a[1], a[3]>>)
                IN  <<x[1], b[1], a[2], b[2]>>
      [] op = "fadd" ->
           IF x[1][1] = 0 THEN x[2]
           ELSE IF x[2][1] = 0 THEN x[1]
           ELSE LET a == x[1]
                    b == x[2]
                    e == IF a[4] < b[4] THEN a[4] ELSE b[4]
                    g == Arith("gcd", <<a[3], b[3]>>)
                    L == (a[3] \div g) * b[3]
                    u == Arith("mulk", <<Arith("mul", <<a[2], Arith("pow10", <<a[4] - e>>)>>),
                                         L \div a[3]>>)
                    v == Arith("mulk", <<Arith("mul", <<b[2], Arith("pow10", <<b[4] - e>>)>>),
                                         L \div b[3]>>)
                    c == Arith("cmp", <<u, v>>)
                IN  IF a[1] = b[1] THEN Arith("norm", <<a[1], Arith("add", <<u, v>>), L, e>>)
                    ELSE IF c = 0 THEN Zero
                    ELSE Arith("norm", <<IF c > 0 THEN a[1] ELSE b[1],
                                         Arith("sub", IF c > 0 THEN <<u, v>> ELSE <<v, u>>),
                                         L, e>>)
      [] op = "fmul" ->
           IF x[1][1] = 0 \/ x[2][1] = 0 THEN Zero
           ELSE LET a == x[1]
                    b == x[2]
                    g1 == IF b[3] = 1 THEN 1
                          ELSE Arith("gcd", <<b[3], Arith("divmodk", <<a[2], b[3]>>)[2]>>)
                    g2 == IF a[3] = 1 THEN 1
                          ELSE Arith("gcd", <<a[3], Arith("divmodk", <<b[2], a[3]>>)[2]>>)
                IN  Arith("norm", <<a[1] * b[1],
                                    Arith("mul", <<Arith("divmodk", <<a[2], g1>>)[1],
                                                   Arith("divmodk", <<b[2], g2>>)[1]>>),
                                    (a[3] \div g2) * (b[3] \div g1), a[4] + b[4]>>)
      [] op = "finv" ->
           Arith("norm", <<x[1][1], Arith("nat", <<x[1][3]>>),
                           Arith("int", <<x[1][2]>>), -x[1][4]>>)
      [] op = "fmt1" ->
           LET a == x[1]
               k == a[4] + 1
               n == IF k >= 0 THEN Arith("mul", <<a[2], Arith("pow10", <<k>>)>>) ELSE a[2]
               den == Arith("mulk", <<IF k >= 0 THEN <<1>> ELSE Arith("pow10", <<-k>>), a[3]>>)
               q == Arith("divmodk", <<IF k >= 0 THEN n ELSE Arith("divpow10", <<n, -k>>),
                                       a[3]>>)[1]
               r2 == Arith("mulk", <<Arith("sub", <<n, Arith("mul", <<q, den>>)>>), 2>>)
               c == Arith("cmp", <<r2, den>>)
               qi == Arith("int", <<q>>)
           IN  a[1] * (IF c > 0 THEN qi + 1
                       ELSE IF c < 0 THEN qi
                       ELSE IF qi % 2 = 0 THEN qi ELSE qi + 1)

\* the integer k
Num(k) == Arith("norm", <<Sign(k), Arith("nat", <<Abs(k)>>), 1, 0>>)

\* the fraction n / d (d > 0) * 10^e
Frac(n, d, e) == Arith("norm", <<Sign(n), Arith("nat", <<Abs(n)>>), d, e>>)

fadd(a, b) == Arith("fadd", <<a, b>>)

fneg(a) == <<-a[1], a[2], a[3], a[4]>>

fsub(a, b) == Arith("fadd", <<a, fneg(b)>>)

fmul(a, b) == Arith("fmul", <<a, b>>)

\* a / b for b # 0
fdiv(a, b) == Arith("fmul", <<a, Arith("finv", <<b>>)>>)

\* f'{x:+.1f}'
fmt1(x) == Arith("fmt1", <<x>>)

\* a <= b
fle(a, b) == Arith("fadd", <<a, fneg(b)>>)[1] <= 0

fmin2(a, b) == IF fle(a, b) THEN a ELSE b

fmax2(a, b) == IF fle(a, b) THEN b ELSE a

RECURSIVE fsum(_)
fsum(s) == IF s = <<>> THEN Zero ELSE fadd(fsum(SubSeq(s, 1, Len(s) - 1)), s[Len(s)])

\* min(s), np.min(s)
RECURSIVE fminSeq(_)
fminSeq(s) == IF Len(s) = 1 THEN s[1] ELSE fmin2(fminSeq(SubSeq(s, 1, Len(s) - 1)), s[Len(s)])

\* max(s), np.max(s)
RECURSIVE fmaxSeq(_)
fmaxSeq(s) == IF Len(s) = 1 THEN s[1] ELSE fmax2(fmaxSeq(SubSeq(s, 1, Len(s) - 1)), s[Len(s)])

\* ------------------------------------------------------------ constants

\* ALPHA = 0.1
ALPHA == <<1, <<1>>, 1, -1>>

\* PADDING = 0.05
PADDING == <<1, <<5>>, 1, -2>>

\* the factor 1e6 of "coefs[0] * 1e6"
Million == <<1, <<1>>, 1, 6>>

One == <<1, <<1>>, 1, 0>>

Two == <<1, <<2>>, 1, 0>>

\* the endpoints of x_common = [0, 600]
XCommonLo == 0

XCommonHi == 600

x_common == <<Num(XCommonLo), Num(XCommonHi)>>

\* ---------------------------------------------------------- pure functions

\* A moving average that does not scale the previous value by (1 - ALPHA):
\* ALPHA * delta + delta_ema
ema_next_unscaled(delta, prev) == fadd(fmul(ALPHA, delta), prev)

\* One step of the exponential moving average:
\* ALPHA * delta + (1 - ALPHA) * delta_ema
ema_next(delta, prev) == fadd(fmul(ALPHA, delta), fmul(fsub(One, ALPHA), prev))

\* The live script's running value: "delta if delta_ema is None else ..."
live_ema(delta, prev) == IF prev = None THEN delta ELSE ema_next(delta, prev)

\* A batch loop that stores the raw deviation at every index.
batch_ema_raw(delta_arr) == delta_arr

\* The batch loop over delta_arr:
\* delta_ema_arr[i] = delta if 0 == i else ALPHA*delta + (1-ALPHA)*delta_ema_arr[i-1]
RECURSIVE batch_ema(_)
batch_ema(delta_arr) ==
    IF delta_arr = <<>> THEN <<>>
    ELSE LET n == Len(delta_arr)
             head == batch_ema(SubSeq(delta_arr, 1, n - 1))
         IN  Append(head, IF n = 1 THEN delta_arr[1]
                          ELSE ema_next(delta_arr[n], head[n - 1]))

\* np.polyfit(x, y, 1) for Len(x) >= 2: the least-squares solution
\* c = pinv(V) y of the Vandermonde system V = [x 1].  With
\* Dxx = n*Sum(x^2) - Sum(x)^2 # 0 the rows of pinv(V) are
\* w[i] = (n*x[i] - Sum(x)) / Dxx and v[i] = (Sum(x^2) - x[i]*Sum(x)) / Dxx.
\* With every x[i] equal to a # 0 the system has rank 1 and numpy returns,
\* with a RankWarning, the minimum-norm solution of the column-scaled system,
\* <<mean(y) / (2a), mean(y) / 2>>.  With every x[i] = 0 the column scaling
\* divides by zero and the solver raises LinAlgError.
LinAlgError == <<"LinAlgError">>

polyfit(x, y) ==
    LET n == Len(x)
        fit(N, Sx, Sxx, Dxx) ==
            IF Dxx # Zero
            THEN <<fsum([i \in 1..n |->
                        fmul(fdiv(fsub(fmul(N, x[i]), Sx), Dxx), y[i])]),
                   fsum([i \in 1..n |->
                        fmul(fdiv(fsub(Sxx, fmul(x[i], Sx)), Dxx), y[i])])>>
            ELSE IF x[1] # Zero
            THEN <<fdiv(fdiv(fsum(y), N), fmul(Two, x[1])),
                   fdiv(fdiv(fsum(y), N), Two)>>
            ELSE LinAlgError
        sums(N, Sx, Sxx) == fit(N, Sx, Sxx, fsub(fmul(N, Sxx), fmul(Sx, Sx)))
    IN  sums(Num(n), fsum(x), fsum([i \in 1..n |-> fmul(x[i], x[i])]))

\* np.poly1d(c): the polynomial's coefficient array, leading zero
\* coefficients trimmed (an all-zero array becomes [0.]).
poly1d(c) == IF c[1] # Zero THEN c ELSE <<c[2]>>

\* polynomial(x): evaluation of a poly1d of degree <= 1
polyval(p, x) == IF Len(p) = 2 THEN fadd(fmul(p[1], x), p[2]) ELSE p[1]

\* "coefs[0] * 1e6" / "polynomial.coefficients[0] * 1e6"
to_ppm(c) == fmul(c[1], Million)

\* regression(x_data, y_data) of the live script: <<ppm, coefs>>
regression(x_data, y_data) ==
    LET result(coefs) ==
            IF coefs = LinAlgError THEN LinAlgError ELSE <<to_ppm(coefs), coefs>>
    IN  IF Len(x_data) < 2 THEN <<None, None>>
        ELSE result(polyfit(x_data, y_data))

\* read_csv(file_path): a file is its sequence of data rows <<actual, measured>>.
\* np.loadtxt gives a one-dimensional array for fewer than two rows, so
\* data.shape[1] raises IndexError, which "except Exception" turns into
\* (None, None).
read_csv(file) ==
    IF Len(file) < 2 THEN None
    ELSE <<[i \in 1..Len(file) |-> file[i][1]], [i \in 1..Len(file) |-> file[i][2]]>>

\* plot_data(plot, file_name, label, colors): the trial drawn from one file.
plot_data(file) ==
    LET csv == read_csv(file)
        actual_time_arr == csv[1]
        measured_time_arr == csv[2]
        delta_arr == [i \in 1..Len(actual_time_arr) |->
                         fsub(measured_time_arr[i], actual_time_arr[i])]
        trial(delta_ema_arr, coefficients) ==
            IF coefficients = LinAlgError THEN [outcome |-> "LinAlgError"]
            ELSE [outcome |-> "ok",
                  actual_time_arr |-> actual_time_arr,
                  delta_arr |-> delta_arr,
                  delta_ema_arr |-> delta_ema_arr,
                  coefficients |-> coefficients,
                  polynomial |-> poly1d(coefficients),
                  reg_x |-> <<fminSeq(actual_time_arr), fmaxSeq(actual_time_arr)>>,
                  label |-> fmt1(to_ppm(coefficients))]
        fitted(delta_ema_arr) ==
            trial(delta_ema_arr, polyfit(actual_time_arr, delta_ema_arr))
    IN  IF csv = None THEN [outcome |-> "TypeError"]
        ELSE fitted(batch_ema(delta_arr))

\* draw_area(plot, x_common, polynomial1, polynomial2, label, color):
\* the filled band and the title's two rates.
draw_area(xc, polynomial1, polynomial2) ==
    [y1 |-> <<polyval(polynomial1, xc[1]), polyval(polynomial1, xc[2])>>,
     y2 |-> <<polyval(polynomial2, xc[1]), polyval(polynomial2, xc[2])>>,
     title |-> <<fmt1(to_ppm(polynomial1)), fmt1(to_ppm(polynomial2))>>]

\* Limits without the padding: <<y_min, y_max>>
set_ylim_unpadded(y) == <<fminSeq(y), fmaxSeq(y)>>

\* set_ylim(y, plot): <<y_low, y_upp>>
set_ylim(y) ==
    LET limits(y_min, y_max, y_range) ==
            LET y_upp == fadd(y_max, fmul(y_range, PADDING))
                y_low == fsub(y_min, fmul(y_range, PADDING))
            IN  <<y_low, y_upp>>
        range(y_min, y_max) == limits(y_min, y_max, fsub(y_max, y_min))
    IN  range(fminSeq(y), fmaxSeq(y))

\* The scenario file of the specification's section 8:
\* (0, 0.0), (100, 0.0003), (200, 0.0006), (300, 0.0009)
Scenario ==
    << <<Num(0), Num(0)>>, <<Num(100), Frac(3, 1, -4)>>,
       <<Num(200), Frac(6, 1, -4)>>, <<Num(300), Frac(9, 1, -4)>> >>

\* ------------------------------------------------------------ the inputs

\* bounds of the model
MaxRows == 2

MaxTime == 1

MaxMeasured == 2

MaxStamp == 1

MaxDt == 2

MaxReadings == 4

MaxBuf == 1

TicksPerSecond == 2

\* the rows a CSV file may hold: <<actual time, measured time>>
Rows == {<<Num(t), Num(m)>> : t \in 0..MaxTime, m \in 0..MaxMeasured}

\* the CSV files: every sequence of at most MaxRows rows (in any order,
\* repeated times included), and the scenario file
Files == UNION {[1..k -> Rows] : k \in 0..MaxRows} \cup {Scenario}

\* plot_data on each of the files, evaluated once per file
trial_of == [file \in Files |-> plot_data(file)]

\* plot_bare(plot, x_common) on the file it reads
plot_bare(file) ==
    LET drawn(t0, y) ==
            [call |-> "plot_bare", outcome |-> "ok", files |-> <<file>>,
             trials |-> <<t0>>, y |-> y, ylim |-> set_ylim(y),
             title |-> <<fmt1(to_ppm(t0.polynomial))>>]
        axes(t0) ==
            IF t0.outcome # "ok"
            THEN [call |-> "plot_bare", outcome |-> t0.outcome,
                  files |-> <<file>>, trials |-> <<t0>>]
            ELSE drawn(t0, <<polyval(t0.polynomial, x_common[1]),
                             polyval(t0.polynomial, x_common[2])>>)
    IN  axes(trial_of[file])

\* plot_group(plot, x_common, file_name_5, file_name_20, ...) on the two
\* files it reads; the second file is not read when the first call fails.
plot_group(file_5, file_20) ==
    LET drawn(t1, t2, y) ==
            [call |-> "plot_group", outcome |-> "ok",
             files |-> <<file_5, file_20>>, trials |-> <<t1, t2>>,
             band |-> draw_area(x_common, t1.polynomial, t2.polynomial),
             y |-> y, ylim |-> set_ylim(y)]
        axes(t1, t2) ==
            IF t1.outcome # "ok"
            THEN [call |-> "plot_group", outcome |-> t1.outcome,
                  files |-> <<file_5, file_20>>, trials |-> <<t1>>]
            ELSE IF t2.outcome # "ok"
            THEN [call |-> "plot_group", outcome |-> t2.outcome,
                  files |-> <<file_5, file_20>>, trials |-> <<t1, t2>>]
            ELSE drawn(t1, t2, <<polyval(t1.polynomial, x_common[1]),
                                 polyval(t1.polynomial, x_common[2]),
                                 polyval(t2.polynomial, x_common[1]),
                                 polyval(t2.polynomial, x_common[2])>>)
    IN  axes(trial_of[file_5], trial_of[file_20])

\* The lines the serial port may deliver: a timestamp "dd.mm.YYYY HH:MM:SS"
\* of 19 characters (stamp: its time in seconds of the clock under test), a
\* line of another length, and a line of 19 characters that is no timestamp.
ResponseLen == 19

Responses ==
    {[chars |-> ResponseLen, stamp |-> <<k>>] : k \in 0..MaxStamp}
        \cup {[chars |-> ResponseLen - 1, stamp |-> <<>>],
              [chars |-> ResponseLen, stamp |-> <<>>]}

\* datetime.strptime(response, '%d.%m.%Y %H:%M:%S'): the time read, or
\* ValueError for a line that is no timestamp
ValueError == <<"ValueError">>

strptime(response) ==
    IF response.stamp = <<>> THEN ValueError ELSE response.stamp[1]

parses(response) == response.stamp # <<>>

\* ------------------------------------------------------------ the state

VARIABLES
    mode,            \* which script runs: "live" (ppm_script) or "batch" (plot_chart)
    pc,              \* where the script is
    is_running,      \* ppm_script: the global flag of the loop
    rx,              \* the serial port's input buffer: lines not yet read
    sent,            \* lines the device has sent so far
    clock,           \* time.perf_counter(), in ticks, at its last reading
    figure,          \* plt.fignum_exists(fig.number): the chart window is open
    timer_start, received_start, received_prev,
    actual_time_arr, delta_arr, delta_ema_arr, delta_ema,
    ppm, coefs,      \* the last result of regression()
    chart,           \* what update_plot last drew
    plot             \* plot_chart: the subplot drawn by the current call

vars == <<mode, pc, is_running, rx, sent, clock, figure, timer_start,
          received_start, received_prev, actual_time_arr, delta_arr,
          delta_ema_arr, delta_ema, ppm, coefs, chart, plot>>

liveVars == <<is_running, rx, sent, clock, figure, timer_start,
              received_start, received_prev, actual_time_arr, delta_arr,
              delta_ema_arr, delta_ema, ppm, coefs, chart>>

sampleVars == <<actual_time_arr, delta_arr, delta_ema_arr, delta_ema, ppm,
                coefs, chart>>

Init ==
    /\ mode \in {"live", "batch"}
    /\ pc = IF mode = "live" THEN "while" ELSE "axes"
    /\ is_running = TRUE
    /\ rx = <<>>
    /\ sent = 0
    /\ clock = 0
    /\ figure = TRUE
    /\ timer_start = None
    /\ received_start = None
    /\ received_prev = None
    /\ actual_time_arr = <<>>
    /\ delta_arr = <<>>
    /\ delta_ema_arr = <<>>
    /\ delta_ema = None
    /\ ppm = None
    /\ coefs = None
    /\ chart = [points |-> 0, pmm |-> None, label |-> None]
    /\ plot = None

\* ------------------------------------------------- ppm_script: environment

\* main is in its loop: at the test of "while is_running:" or at the test
\* of ser.inWaiting()
InLoop == mode = "live" /\ pc \in {"while", "inWaiting"}

\* The device under test sends a line.
Deliver(response) ==
    /\ mode = "live"
    /\ InLoop
    /\ sent < MaxReadings
    /\ Len(rx) < MaxBuf
    /\ rx' = Append(rx, response)
    /\ sent' = sent + 1
    /\ UNCHANGED <<mode, pc, is_running, clock, figure, timer_start,
                   received_start, received_prev, sampleVars, plot>>

\* The user closes the chart window.
CloseWindow ==
    /\ mode = "live"
    /\ InLoop
    /\ figure
    /\ figure' = FALSE
    /\ UNCHANGED <<mode, pc, is_running, rx, sent, clock, timer_start,
                   received_start, received_prev, sampleVars, plot>>

\* ------------------------------------------------------ ppm_script: main

\* "while is_running:" finds the flag cleared: main returns.
LoopExit ==
    /\ mode = "live"
    /\ pc = "while"
    /\ ~is_running
    /\ pc' = "done"
    /\ UNCHANGED <<mode, liveVars, plot>>

\* "while is_running:" finds the flag set: the body runs.
LoopEnter ==
    /\ mode = "live"
    /\ pc = "while"
    /\ is_running
    /\ pc' = "inWaiting"
    /\ UNCHANGED <<mode, liveVars, plot>>

\* "if ser.inWaiting() <= 0: continue"
Poll ==
    /\ mode = "live"
    /\ pc = "inWaiting"
    /\ rx = <<>>
    /\ pc' = "while"
    /\ UNCHANGED <<mode, liveVars, plot>>

\* readline() gives a line of the wrong length: printed and skipped.
ReadInvalid ==
    /\ mode = "live"
    /\ pc = "inWaiting"
    /\ rx # <<>>
    /\ Head(rx).chars # ResponseLen
    /\ rx' = Tail(rx)
    /\ pc' = "while"
    /\ UNCHANGED <<mode, is_running, sent, clock, figure, timer_start,
                   received_start, received_prev, sampleVars, plot>>

\* A line of the right length that strptime cannot parse: ValueError
\* leaves main.
ReadUnparsable(dt) ==
    /\ mode = "live"
    /\ pc = "inWaiting"
    /\ rx # <<>>
    /\ Head(rx).chars = ResponseLen
    /\ ~parses(Head(rx))
    /\ rx' = Tail(rx)
    /\ clock' = clock + dt
    /\ pc' = "ValueError"
    /\ UNCHANGED <<mode, is_running, sent, figure, timer_start,
                   received_start, received_prev, sampleVars, plot>>

\* "if received_prev is None": the first timestamp starts the timer.
ReadFirst(dt) ==
    /\ mode = "live"
    /\ pc = "inWaiting"
    /\ rx # <<>>
    /\ Head(rx).chars = ResponseLen
    /\ parses(Head(rx))
    /\ received_prev = None
    /\ rx' = Tail(rx)
    /\ clock' = clock + dt
    /\ timer_start' = <<clock + dt>>
    /\ received_start' = <<strptime(Head(rx))>>
    /\ received_prev' = <<strptime(Head(rx))>>
    /\ pc' = "while"
    /\ UNCHANGED <<mode, is_running, sent, figure, sampleVars, plot>>

\* "if received_prev == received_time_curr"
is_duplicate(prev, curr) == prev = <<curr>>

\* "if received_prev == received_time_curr: continue"
ReadDuplicate(dt) ==
    /\ mode = "live"
    /\ pc = "inWaiting"
    /\ rx # <<>>
    /\ Head(rx).chars = ResponseLen
    /\ parses(Head(rx))
    /\ received_prev # None
    /\ is_duplicate(received_prev, strptime(Head(rx)))
    /\ rx' = Tail(rx)
    /\ clock' = clock + dt
    /\ pc' = "while"
    /\ UNCHANGED <<mode, is_running, sent, figure, timer_start,
                   received_start, received_prev, sampleVars, plot>>

\* update_plot(actual_time_arr, delta_raw_arr, delta_ema_arr, ppm, coeffs):
\* the chart it leaves, the window being open
update_plot(times, ema, p, c) ==
    IF c = None
    THEN [points |-> Len(times), pmm |-> chart.pmm, label |-> chart.label]
    ELSE [points |-> Len(times),
          pmm |-> << <<times[1], times[Len(times)]>>,
                     <<polyval(poly1d(c), times[1]),
                       polyval(poly1d(c), times[Len(times)])>> >>,
          label |-> <<fmt1(p)>>]

\* Any other timestamp is a sample: deviation, moving average, regression
\* and the chart's update.
ReadSample(dt) ==
    /\ mode = "live"
    /\ pc = "inWaiting"
    /\ rx # <<>>
    /\ Head(rx).chars = ResponseLen
    /\ parses(Head(rx))
    /\ received_prev # None
    /\ ~is_duplicate(received_prev, strptime(Head(rx)))
    /\ LET timer_curr == clock + dt
           received_time_curr == strptime(Head(rx))
           actual_time == Frac(timer_curr - timer_start[1], TicksPerSecond, 0)
           measured_time == received_time_curr - received_start[1]
       IN  \E delta \in {fsub(Num(measured_time), actual_time)} :
           \E ema \in {live_ema(delta, delta_ema)} :
           \E reg \in {regression(Append(actual_time_arr, actual_time),
                                  Append(delta_ema_arr, ema))} :
               /\ rx' = Tail(rx)
               /\ clock' = timer_curr
               /\ received_prev' = <<received_time_curr>>
               /\ delta_ema' = ema
               /\ actual_time_arr' = Append(actual_time_arr, actual_time)
               /\ delta_arr' = Append(delta_arr, delta)
               /\ delta_ema_arr' = Append(delta_ema_arr, ema)
               /\ IF reg = LinAlgError
                  THEN /\ pc' = "LinAlgError"
                       /\ UNCHANGED <<ppm, coefs, is_running, chart>>
                  ELSE /\ pc' = "while"
                       /\ ppm' = reg[1]
                       /\ coefs' = reg[2]
                       /\ is_running' = figure
                       /\ chart' = IF figure
                                   THEN update_plot(actual_time_arr', delta_ema_arr',
                                                    reg[1], reg[2])
                                   ELSE chart
    /\ UNCHANGED <<mode, sent, figure, timer_start, received_start, plot>>

\* ------------------------------------------------------ plot_chart: main

\* plot_bare(axs[0, 0], x_common)
PlotBare(file) ==
    /\ mode = "batch"
    /\ pc = "axes"
    /\ plot' = plot_bare(file)
    /\ pc' = IF plot'.outcome = "ok" THEN "drawn" ELSE plot'.outcome
    /\ UNCHANGED <<mode, liveVars>>

\* plot_group(plot=axs[i, j], x_common=x_common, file_name_5=..., ...)
PlotGroup(file_5, file_20) ==
    /\ mode = "batch"
    /\ pc = "axes"
    /\ plot' = plot_group(file_5, file_20)
    /\ pc' = IF plot'.outcome = "ok" THEN "drawn" ELSE plot'.outcome
    /\ UNCHANGED <<mode, liveVars>>

\* main goes on to the next subplot, a fresh one
NextAxes ==
    /\ mode = "batch"
    /\ pc = "drawn"
    /\ pc' = "axes"
    /\ plot' = None
    /\ UNCHANGED <<mode, liveVars>>

Next ==
    \/ \E r \in Responses : Deliver(r)
    \/ CloseWindow
    \/ LoopExit
    \/ LoopEnter
    \/ Poll
    \/ ReadInvalid
    \/ \E dt \in 1..MaxDt : ReadUnparsable(dt)
    \/ \E dt \in 1..MaxDt : ReadFirst(dt)
    \/ \E dt \in 1..MaxDt : ReadDuplicate(dt)
    \/ \E dt \in 1..MaxDt : ReadSample(dt)
    \/ \E f \in Files : PlotBare(f)
    \/ \E f5 \in Files : \E f20 \in Files : PlotGroup(f5, f20)
    \/ NextAxes

Spec == Init /\ [][Next]_vars

\* "if ser.inWaiting() <= 0" with a line in the buffer: readline() will
\* take it.
LineWaits == mode = "live" /\ pc = "inWaiting" /\ rx # <<>>

\* readline() takes the line that waits: the step of the Read actions, one
\* of which is enabled whenever a line waits.
TakeLine == LineWaits /\ rx' = Tail(rx)

\* The script keeps running: each step of the loop that can be taken is
\* taken (for the Read actions, weak fairness of TakeLine, which is enabled
\* exactly when LineWaits holds).  The device and the user are under no
\* obligation.
FairSpec ==
    /\ Spec
    /\ WF_vars(LoopExit)
    /\ WF_vars(LoopEnter)
    /\ WF_vars(Poll)
    /\ ([]<>~LineWaits \/ []<><<TakeLine>>_vars)

\* ------------------------------------------------------------ properties

\* a < b
flt(a, b) == fsub(a, b)[1] < 0

\* the sequence s of numbers is strictly increasing
StrictlyIncreasing(s) == \A i \in 1..(Len(s) - 1) : flt(s[i], s[i + 1])

\* every element of the sequence s of numbers is the same
AllIdentical(s) == \A i \in 1..Len(s) : s[i] = s[1]

\* the trials of the subplot just drawn (or that failed to draw)
BatchCalled == mode = "batch" /\ pc # "axes"

\* the CSV file that holds the samples the live loop has stored
StoredFile ==
    [i \in 1..Len(actual_time_arr) |->
        <<actual_time_arr[i], fadd(delta_arr[i], actual_time_arr[i])>>]

\* C1: in live and in batch mode the stored actual_time sequence of a trial
\* is strictly increasing in every reachable state: a sample whose
\* actual_time equals or precedes the latest accepted one is not stored.
C1_TimesStrictlyIncrease ==
    /\ mode = "live" => StrictlyIncreasing(actual_time_arr)
    /\ BatchCalled =>
          \A i \in DOMAIN plot.trials :
              plot.trials[i].outcome = "ok"
                  => StrictlyIncreasing(plot.trials[i].actual_time_arr)

\* C2: the samples the live loop has stored one at a time, given all at once
\* to plot_data, produce the same sequence of moving averages and the same
\* final estimate (slope and intercept) as the live loop holds.
C2_StreamEqualsBatch ==
    (mode = "live" /\ actual_time_arr # <<>>) =>
        \E t \in {plot_data(StoredFile)} :
            /\ t.outcome = "ok"
            /\ t.delta_ema_arr = delta_ema_arr
            /\ t.coefficients = coefs

\* C2 from the second sample on: the two paths agree.
C2_FromTwoSamples ==
    (mode = "live" /\ Len(actual_time_arr) >= 2) =>
        \E t \in {plot_data(StoredFile)} :
            /\ t.outcome = "ok"
            /\ t.delta_ema_arr = delta_ema_arr
            /\ t.coefficients = coefs

\* ema is the moving average of the deviations delta: ema[1] = delta[1],
\* 10 * ema[i] = delta[i] + 9 * ema[i-1], and ema[i] lies between delta[i]
\* and ema[i-1] inclusive.
IsEma(delta, ema) ==
    /\ Len(ema) = Len(delta)
    /\ delta # <<>> => ema[1] = delta[1]
    /\ \A i \in 2..Len(delta) :
          /\ fmul(Num(10), ema[i]) = fadd(delta[i], fmul(Num(9), ema[i - 1]))
          /\ fle(fmin2(delta[i], ema[i - 1]), ema[i])
          /\ fle(ema[i], fmax2(delta[i], ema[i - 1]))

C4_InsufficientData ==
    /\ InLoop =>
          /\ Len(actual_time_arr) < 2 => ppm = None /\ coefs = None
          /\ Len(actual_time_arr) >= 2 => ppm # None /\ coefs # None
    /\ BatchCalled =>
          \A i \in DOMAIN plot.trials :
              /\ Len(plot.files[i]) < 2
                    => plot.trials[i].outcome = "InsufficientData"
              /\ (Len(plot.files[i]) >= 2
                    /\ ~AllIdentical([k \in 1..Len(plot.files[i]) |-> plot.files[i][k][1]]))
                    => plot.trials[i].outcome = "ok"

\* C4 in the live loop alone: regression() gives (None, None) below two
\* samples and an estimate from two samples on.
C4_LiveOnly ==
    InLoop =>
        /\ Len(actual_time_arr) < 2 => ppm = None /\ coefs = None
        /\ Len(actual_time_arr) >= 2 => ppm # None /\ coefs # None

\* C5: a fit on a trial of two samples or more whose actual_time values are
\* all identical never gives a slope.
C5_DegenerateDomain ==
    BatchCalled =>
        \A i \in DOMAIN plot.trials :
            (Len(plot.files[i]) >= 2
                /\ AllIdentical([k \in 1..Len(plot.files[i]) |-> plot.files[i][k][1]]))
                => plot.trials[i].outcome # "ok"

\* |a|
fabs(a) == <<Abs(a[1]), a[2], a[3], a[4]>>

\* a and b differ by no more than 0.05, half a unit of the decimal printed
Approx(a, b) == fle(fabs(fsub(a, b)), <<1, <<5>>, 1, -2>>)

\* the subplot drawn holds a trial read from the scenario file
ScenarioDrawn ==
    /\ BatchCalled
    /\ \E i \in DOMAIN plot.trials : plot.files[i] = Scenario

\* C6 (as stated): the pipeline on the samples (0, 0.0), (100, 0.0003),
\* (200, 0.0006), (300, 0.0009) yields ppm within 0.05 of 3.0 and an
\* intercept within 0.05 of 0.0.
C6_ScenarioThreePpm ==
    BatchCalled =>
        \A i \in DOMAIN plot.trials :
            plot.files[i] = Scenario =>
                /\ plot.trials[i].outcome = "ok"
                /\ Approx(to_ppm(plot.trials[i].coefficients), Num(3))
                /\ Approx(plot.trials[i].coefficients[2], Zero)

\* C6 (amended): the pipeline on the samples (0, 0.0), (100, 0.0003),
\* (200, 0.0006), (300, 0.0009) has the deviations 0, -99.9997, -199.9994,
\* -299.9991 and their moving averages 0, -9.99997, -28.999913, -56.0998317,
\* and yields the slope -0.1872994381 (ppm -187299.4381, printed as
\* -187299.4) and the intercept 4.31998704.
C6_ScenarioEstimate ==
    BatchCalled =>
        \A i \in DOMAIN plot.trials :
            plot.files[i] = Scenario =>
                /\ plot.trials[i].outcome = "ok"
                /\ plot.trials[i].delta_arr =
                      <<Zero, Frac(-999997, 1, -4), Frac(-1999994, 1, -4),
                        Frac(-2999991, 1, -4)>>
                /\ plot.trials[i].delta_ema_arr =
                      <<Zero, Frac(-999997, 1, -5), Frac(-28999913, 1, -6),
                        Frac(-560998317, 1, -7)>>
                /\ plot.trials[i].coefficients =
                      <<Frac(-1872994381, 1, -10), Frac(431998704, 1, -8)>>
                /\ to_ppm(plot.trials[i].coefficients) = Frac(-1872994381, 1, -4)
                /\ plot.trials[i].label = -1872994

\* C6's case: plot_bare has drawn the scenario file.
C6_Witness ==
    /\ mode = "batch"
    /\ pc = "drawn"
    /\ plot.call = "plot_bare"
    /\ plot.files = <<Scenario>>
    /\ plot.title = <<-1872994>>

\* plot_group has drawn a pair of trials
GroupDrawn == mode = "batch" /\ pc = "drawn" /\ plot.call = "plot_group"

\* the band of a and the band of b have the same extent at both endpoints
SameEnvelope(a, b) ==
    \A k \in 1..2 :
        /\ fmin2(a.y1[k], a.y2[k]) = fmin2(b.y1[k], b.y2[k])
        /\ fmax2(a.y1[k], a.y2[k]) = fmax2(b.y1[k], b.y2[k])

\* C7: combining two estimates A and B is order-independent: either order
\* reports the pair of rates A.ppm and B.ppm (the fitted slopes times 1e6)
\* and the same envelope extent at each endpoint, and for A = B the envelope
\* has zero width at both endpoints.
C7_CombineOrderIndependent ==
    GroupDrawn =>
        \E swapped \in {plot_group(plot.files[2], plot.files[1])} :
            /\ plot.band.title = <<fmt1(to_ppm(plot.trials[1].coefficients)),
                                   fmt1(to_ppm(plot.trials[2].coefficients))>>
            /\ swapped.band.title = <<plot.band.title[2], plot.band.title[1]>>
            /\ SameEnvelope(plot.band, swapped.band)
            /\ plot.trials[1].coefficients = plot.trials[2].coefficients
                  => plot.band.y1 = plot.band.y2

\* C7 without the rates' values: the two orders report the same pair, the
\* same envelope, and a zero width for A = B.
C7_OrderOnly ==
    GroupDrawn =>
        \E swapped \in {plot_group(plot.files[2], plot.files[1])} :
            /\ swapped.band.title = <<plot.band.title[2], plot.band.title[1]>>
            /\ SameEnvelope(plot.band, swapped.band)
            /\ plot.trials[1].coefficients = plot.trials[2].coefficients
                  => plot.band.y1 = plot.band.y2

\* C7's rates for fitted slopes other than zero.
C7_NonzeroSlopes ==
    (GroupDrawn /\ plot.trials[1].coefficients[1] # Zero
                /\ plot.trials[2].coefficients[1] # Zero) =>
        plot.band.title = <<fmt1(to_ppm(plot.trials[1].coefficients)),
                            fmt1(to_ppm(plot.trials[2].coefficients))>>

\* C8: for a pair of trials the vertical bounds come from the four
\* evaluations of both regression lines at the ends of x_common: with y_min
\* and y_max their minimum and maximum, lower = y_min - 0.05 * (y_max - y_min)
\* and upper = y_max + 0.05 * (y_max - y_min), so that
\* lower <= y_min <= y_max <= upper and the four values lie inside.
C8_YLimits ==
    GroupDrawn =>
        /\ plot.y = <<polyval(poly1d(plot.trials[1].coefficients), Num(XCommonLo)),
                      polyval(poly1d(plot.trials[1].coefficients), Num(XCommonHi)),
                      polyval(poly1d(plot.trials[2].coefficients), Num(XCommonLo)),
                      polyval(poly1d(plot.trials[2].coefficients), Num(XCommonHi))>>
        /\ \E lo \in 1..4 : \E hi \in 1..4 :
              /\ \A k \in 1..4 : fle(plot.y[lo], plot.y[k]) /\ fle(plot.y[k], plot.y[hi])
              /\ fmul(Num(20), fsub(plot.y[lo], plot.ylim[1]))
                    = fsub(plot.y[hi], plot.y[lo])
              /\ fmul(Num(20), fsub(plot.ylim[2], plot.y[hi]))
                    = fsub(plot.y[hi], plot.y[lo])
              /\ fle(plot.ylim[1], plot.y[lo])
              /\ fle(plot.y[hi], plot.ylim[2])
        /\ \A k \in 1..4 : fle(plot.ylim[1], plot.y[k]) /\ fle(plot.y[k], plot.ylim[2])

\* C8's case: a pair of trials is drawn whose two lines differ, the bounds
\* lying strictly outside the four values.
C8_Witness ==
    /\ GroupDrawn
    /\ plot.trials[1].coefficients # plot.trials[2].coefficients
    /\ \A k \in 1..4 : flt(plot.ylim[1], plot.y[k]) /\ flt(plot.y[k], plot.ylim[2])

\* C9: in live mode, once the chart window is closed the loop eventually
\* terminates, whether or not the serial port delivers another line.
C9_ClosedWindowStops == (mode = "live" /\ ~figure) ~> ~InLoop

\* C9's other half: once the window is closed the chart is not updated.
C9_NoUpdateAfterClose == [][(mode = "live" /\ ~figure) => chart' = chart]_vars

\* a step of the live loop that takes a line from the serial port
ReadStep == mode = "live" /\ rx # <<>> /\ rx' = Tail(rx)

\* the line read is one the loop skips: of the wrong length, the first of
\* the right length, or a timestamp equal to the previous one
Skipped(response) ==
    \/ response.chars # ResponseLen
    \/ received_prev = None
    \/ parses(response) /\ received_prev = <<strptime(response)>>

EqualLengths ==
    /\ Len(actual_time_arr) = Len(delta_arr)
    /\ Len(delta_arr) = Len(delta_ema_arr)

\* C10: in live mode the first reading of the right length only fixes the
\* time origin; a reading that is of the wrong length, is that first
\* reading, or repeats the previous timestamp leaves the three arrays and
\* the running average unchanged; every other reading appends one element
\* to each of the three arrays, which always have the same length.
C10_ReadingsFrame ==
    /\ [][ReadStep =>
            /\ (Head(rx).chars = ResponseLen /\ received_prev = None) =>
                  /\ timer_start' # None
                  /\ received_start' # None
                  /\ received_prev' # None
            /\ Skipped(Head(rx)) =>
                  UNCHANGED <<actual_time_arr, delta_arr, delta_ema_arr, delta_ema>>
            /\ ~Skipped(Head(rx)) =>
                  /\ Len(actual_time_arr') = Len(actual_time_arr) + 1
                  /\ Len(delta_arr') = Len(delta_arr) + 1
                  /\ Len(delta_ema_arr') = Len(delta_ema_arr) + 1]_vars
    /\ []EqualLengths

\* C10 for the lines that are timestamps; a line of the right length that
\* is no timestamp ends the loop with ValueError, the arrays unchanged.
C10_TimestampsFrame ==
    /\ [][ReadStep =>
            /\ (parses(Head(rx)) /\ received_prev = None) =>
                  /\ timer_start' # None
                  /\ received_start' # None
                  /\ received_prev' # None
            /\ Skipped(Head(rx)) =>
                  UNCHANGED <<actual_time_arr, delta_arr, delta_ema_arr, delta_ema>>
            /\ (~Skipped(Head(rx)) /\ parses(Head(rx))) =>
                  /\ Len(actual_time_arr') = Len(actual_time_arr) + 1
                  /\ Len(delta_arr') = Len(delta_arr) + 1
                  /\ Len(delta_ema_arr') = Len(delta_ema_arr) + 1
            /\ (Head(rx).chars = ResponseLen /\ ~parses(Head(rx))) =>
                  /\ pc' = "ValueError"
                  /\ UNCHANGED <<actual_time_arr, delta_arr, delta_ema_arr, delta_ema>>]_vars
    /\ []EqualLengths

====
